---- MODULE Spec2Model ----
(***************************************************************************)
(* libreScope: serial communication layer (SerialProtocol and             *)
(* CommunicationManager, gui/communication/comm_manager.py) and the        *)
(* bounded time-series store (DataManager, gui/data/data_manager.py).      *)
(*                                                                         *)
(* Twelve specifications share one set of variables:                       *)
(*   Spec      connection lifecycle: the control context (main thread)     *)
(*             and the reader threads, interleaved statement by statement  *)
(*   SpecHub   the dispatch hub: the subscriber list and _dispatch_data    *)
(*   SpecStore the store, one caller at a time                             *)
(*   SpecRace  the store called by the reader thread and by the control    *)
(*             context at the same time                                    *)
(*   SpecLines the reader loop over the lines of one read                  *)
(*   SpecBeat  the lifecycle with a running clock: the heartbeat time      *)
(*   SpecCodec send_message and the reader on a looped-back wire           *)
(*   SpecLog   CSV logging sessions of the store                           *)
(*   SpecLoad  load_log_file on a CSV file of any origin                   *)
(*   SpecReplay  a logging session, then load_log_file of its file         *)
(*   SpecClear clear_data between and during logging sessions              *)
(*   SpecWire  one line of the device, taken in one read or in several     *)
(***************************************************************************)
EXTENDS Integers, Sequences, FiniteSets, TLC

VARIABLES
    \* ---- SerialProtocol (comm_manager.py:20-23, 94-100)
    is_open,          \* self.is_open
    ser,              \* self.ser: 0 is None, h > 0 is the h-th Serial object
    last_ok_time,     \* self.last_ok_time
    running,          \* self._running
    reader_thread,    \* self.reader_thread: 0 is None, else a thread id
    on_data_received, \* self.on_data_received is set
    \* ---- the environment of the protocol
    portOpen,         \* the Serial objects whose port is open
    nextHandle,       \* the next Serial object to be constructed
    inbuf,            \* lines the device has sent and nobody has read yet
    sent,             \* number of lines the device has sent
    now,              \* time.time()
    \* ---- threads of control
    threads,          \* reader threads: id -> [pc, lines]
    nextTid,          \* the next thread id to be started
    mpc, mop, mret,   \* control context: position, operation, last result
    \* ---- DataManager (data_manager.py:25-27)
    data_history,     \* self.data_history: key -> sequence of <<value, t>>
    max_points,       \* self.max_points
    start_time,       \* self.start_time
    appended,         \* history: key -> every point appended since the last clear
    \* ---- CommunicationManager (comm_manager.py:297) and one dispatch
    data_callbacks,   \* self.data_callbacks
    dpc,              \* _dispatch_data: "idle" | "loop" | "in_cb"
    dit,              \* index of the list iterator of the for loop
    dcur,             \* the callback being invoked
    dsnap,            \* history: data_callbacks when the dispatch began
    dgot,             \* history: callbacks invoked for the event in flight
    dcaught,          \* history: number of exceptions caught by this dispatch
    dprop,            \* an exception left _dispatch_data
    selfUnsub,        \* history: callbacks that unregistered themselves
    events,           \* number of events dispatched
    \* ---- two store callers at once
    rc,               \* caller -> [pc, op, key, val, tmp, it, size]
    pre,              \* history: data_history when the callers last were both idle
    rounds,           \* number of times both callers have finished
    \* ---- one message through the line protocol
    tx_key, tx_value, \* the arguments of send_message
    wire,             \* the characters send_message has written
    rx_events,        \* the signal events the reader decoded from them
    cpc,              \* "send" | "read" | "done"
    \* ---- CSV logging of DataManager (data_manager.py:29-34)
    logging_active,     \* self.logging_active
    logging_start_time, \* self.logging_start_time: NoTime is None
    logging_vars,       \* self.logging_vars
    csv_file,           \* self.csv_file: 0 is None, f > 0 is the f-th file opened
    csv_writer,         \* self.csv_writer: 0 is None, else the file it writes to
    files,              \* the files opened: [rows, open]
    lret,               \* result of the last logger call
    disk                \* a CSV file of another origin: its rows of cells

connVars  == <<is_open, ser, last_ok_time, running, reader_thread,
               on_data_received, portOpen, nextHandle, inbuf, sent>>
thrVars   == <<threads, nextTid, mpc, mop, mret>>
storeVars == <<data_history, max_points, start_time, appended>>
hubVars   == <<data_callbacks, dpc, dit, dcur, dsnap, dgot, dcaught, dprop,
               selfUnsub, events>>
raceVars  == <<rc, pre, rounds>>
codecVars == <<tx_key, tx_value, wire, rx_events, cpc>>
logVars   == <<logging_active, logging_start_time, logging_vars, csv_file,
               csv_writer, files, lret, disk>>
restVars  == <<raceVars, codecVars, logVars>>
vars      == <<connVars, now, thrVars, storeVars, hubVars, restVars>>

(***************************************************************************)
(* Bounds of the model                                                     *)
(***************************************************************************)
MaxSessions == 2
MaxLines == 2
MaxClock == 1
MaxCap == 2

\* Keys of the signal definitions (main.py:38).  A string is the sequence of
\* its characters
KnownKeys == {<<"a">>}
\* A reader thread is started after a successful connect only
Tids == 1..MaxSessions

NoThread == [pc |-> "new", lines |-> <<>>]

(***************************************************************************)
(* Line protocol: the message of send_message and the decoding of a        *)
(* received line in _read_serial.  A float value with two decimals is      *)
(* the integer number of its hundredths.                                   *)
(***************************************************************************)
CR == "CR"
LF == "LF"
LineBreaks == {CR, LF}
\* The characters str.strip() removes
WhiteSpace == {" ", CR, LF}

DigitChars == <<"0", "1", "2", "3", "4", "5", "6", "7", "8", "9">>
IsDigit(c) == \E i \in 1..10 : DigitChars[i] = c
DigitVal(c) == (CHOOSE i \in 1..10 : DigitChars[i] = c) - 1

\* The decimal digits of a natural number
RECURSIVE NatText(_)
NatText(n) == IF n < 10 THEN <<DigitChars[n + 1]>>
              ELSE Append(NatText(n \div 10), DigitChars[(n % 10) + 1])

\* a format with one fractional digit
Format1f(h) ==
    LET a == IF h < 0 THEN -h ELSE h IN
      (IF h < 0 THEN <<"-">> ELSE <<>>) \o NatText(a \div 100)
        \o <<".", DigitChars[((a % 100) \div 10) + 1]>>

\* comm_manager.py:202: f"{value:.2f}" of the value of h hundredths
Format2f(h) ==
    LET a == IF h < 0 THEN -h ELSE h IN
      (IF h < 0 THEN <<"-">> ELSE <<>>) \o NatText(a \div 100)
        \o <<".", DigitChars[((a % 100) \div 10) + 1], DigitChars[(a % 10) + 1]>>

\* comm_manager.py:202: f"{key}:{value:.2f}\r\n"
Encode(key, h) == key \o <<":">> \o Format2f(h) \o <<CR, LF>>

\* comm_manager.py:237: str.splitlines(): a line ends at "\r\n", "\r" or
\* "\n"; the text after the last line break is a line when it is not empty
RECURSIVE SplitFrom(_, _, _)
SplitFrom(text, i, cur) ==
    IF i > Len(text) THEN (IF cur = <<>> THEN <<>> ELSE <<cur>>)
    ELSE IF text[i] = CR /\ i < Len(text) /\ text[i + 1] = LF
         THEN <<cur>> \o SplitFrom(text, i + 2, <<>>)
    ELSE IF text[i] \in LineBreaks
         THEN <<cur>> \o SplitFrom(text, i + 1, <<>>)
    ELSE SplitFrom(text, i + 1, Append(cur, text[i]))

SplitLines(text) == SplitFrom(text, 1, <<>>)

\* comm_manager.py:240: line.strip()
RECURSIVE LStrip(_)
LStrip(t) == IF t # <<>> /\ Head(t) \in WhiteSpace THEN LStrip(Tail(t)) ELSE t

RECURSIVE RStrip(_)
RStrip(t) == IF t # <<>> /\ t[Len(t)] \in WhiteSpace
             THEN RStrip(SubSeq(t, 1, Len(t) - 1)) ELSE t

\* a strip that leaves the whitespace at the end
StripLeftOnly(t) == LStrip(t)

Strip(t) == RStrip(LStrip(t))

\* comm_manager.py:243
OKToken == <<"O", "K">>

\* The index of the first ':' of t, or 0 (comm_manager.py:248, 252)
FirstColon(t) ==
    IF \E i \in 1..Len(t) : t[i] = ":"
    THEN CHOOSE i \in 1..Len(t) : t[i] = ":" /\ \A j \in 1..(i - 1) : t[j] # ":"
    ELSE 0

\* The value text without its sign
Unsigned(v) == IF v # <<>> /\ Head(v) = "-" THEN Tail(v) ELSE v

\* a value pattern whose integer part may be empty
PatternNoInteger(v) ==
    LET u == Unsigned(v) IN
      /\ Len(u) >= 3
      /\ u[Len(u) - 2] = "."
      /\ \A i \in 1..Len(u) : i # Len(u) - 2 => IsDigit(u[i])

\* comm_manager.py:231, 255: re.compile(r"^-?\d+\.\d\d$").match(value_str)
Pattern(v) ==
    LET u == Unsigned(v) IN
      /\ Len(u) >= 4
      /\ u[Len(u) - 2] = "."
      /\ \A i \in 1..Len(u) : i # Len(u) - 2 => IsDigit(u[i])

RECURSIVE DigitsVal(_)
DigitsVal(d) == IF d = <<>> THEN 0
                ELSE 10 * DigitsVal(SubSeq(d, 1, Len(d) - 1)) + DigitVal(d[Len(d)])

\* comm_manager.py:259: float(value_str) of a text the pattern accepts
Float(v) ==
    LET u == Unsigned(v)
        a == 100 * DigitsVal(SubSeq(u, 1, Len(u) - 3))
               + 10 * DigitVal(u[Len(u) - 1]) + DigitVal(u[Len(u)])
    IN IF Head(v) = "-" THEN -a ELSE a

\* a heartbeat test that every line passes
IsHeartbeatAlways(t) == TRUE

\* comm_manager.py:243: if line == "OK"
IsHeartbeat(t) == t = OKToken

Heartbeat == [kind |-> "OK", key |-> <<>>, val |-> 0]
Discarded == [kind |-> "skip", key |-> <<>>, val |-> 0]

\* comm_manager.py:240-259: what one line of raw_lines is taken for
Decode(line) ==
    LET t == Strip(line)
        c == FirstColon(t)
    IN IF IsHeartbeat(t) THEN Heartbeat
       ELSE IF t = <<>> \/ c = 0 THEN Discarded
       ELSE IF ~Pattern(SubSeq(t, c + 1, Len(t))) THEN Discarded
       ELSE [kind |-> "sig", key |-> SubSeq(t, 1, c - 1),
             val |-> Float(SubSeq(t, c + 1, Len(t)))]

\* The lines the device sends in the lifecycle: a heartbeat, and the line
\* of key k whose value is n
OkLine == OKToken
SigLine(k, n) == k \o <<":">> \o Format2f(100 * n)

(***************************************************************************)
(* DataManager.add_data_point, one caller at a time                        *)
(***************************************************************************)
\* lst[-m:] of Python: the last m items, and the whole list when m = 0
PySliceLast(lst, m) ==
    IF m = 0 \/ Len(lst) <= m THEN lst
    ELSE SubSeq(lst, Len(lst) - m + 1, Len(lst))

\* lst[:m], the slice a trim from the wrong end would take
PySliceFirst(lst, m) ==
    IF Len(lst) <= m THEN lst ELSE SubSeq(lst, 1, m)

TrimKeepFirst(lst, m) ==
    IF Len(lst) > m THEN PySliceFirst(lst, m) ELSE lst

\* data_manager.py:60-61
Trim(lst, m) ==
    IF Len(lst) > m THEN PySliceLast(lst, m) ELSE lst

\* data_manager.py:53-54: the series of a key, created empty when absent
SeriesOf(dh, k) == IF k \in DOMAIN dh THEN dh[k] ELSE <<>>

SetKey(dh, k, s) == [x \in (DOMAIN dh) \cup {k} |-> IF x = k THEN s ELSE dh[x]]

\* data_manager.py:45-61
add_data_point(dh, k, v, t) ==
    SetKey(dh, k, Trim(Append(SeriesOf(dh, k), <<v, t - start_time>>), max_points))

NoteAppend(k, v, t) ==
    appended' = SetKey(appended, k, Append(SeriesOf(appended, k), <<v, t - start_time>>))

(***************************************************************************)
(* Reader thread: SerialProtocol._read_serial                              *)
(***************************************************************************)
Alive(t) == threads[t].pc \notin {"new", "done", "crashed"}

SetPc(t, p) == threads' = [threads EXCEPT ![t].pc = p]

\* comm_manager.py:154: if self.ser
DisconnectGuard(s) == s # 0

\* comm_manager.py:156: self.ser.close() on an open port; the input the
\* device had sent is lost with the last open port
ClosePort(h) ==
    /\ portOpen' = portOpen \ {h}
    /\ inbuf' = IF portOpen \ {h} = {} THEN <<>> ELSE inbuf

\* comm_manager.py:233: while self._running and self.ser
R_Test(t) ==
    /\ threads[t].pc = "test"
    /\ SetPc(t, IF running /\ ser # 0 THEN "poll" ELSE "done")
    /\ UNCHANGED <<connVars, now, nextTid, mpc, mop, mret, storeVars, hubVars, restVars>>

\* comm_manager.py:235: if self.ser.in_waiting.  self.ser is read again: on
\* None the AttributeError is not caught by line 268 and ends the thread; on
\* a closed port the library raises (the exception type depends on the
\* platform: caught at 268 or not); on an open port the read may fail.
\* comm_manager.py:281: the sleep when nothing is waiting.
R_Poll(t) ==
    /\ threads[t].pc = "poll"
    /\ \/ ser = 0 /\ SetPc(t, "crashed")
       \/ ser # 0 /\ ser \notin portOpen /\ \E p \in {"crashed", "except"} : SetPc(t, p)
       \/ ser \in portOpen /\ SetPc(t, "except")
       \/ ser \in portOpen /\ SetPc(t, IF inbuf = <<>> THEN "test" ELSE "read")
    /\ UNCHANGED <<connVars, now, nextTid, mpc, mop, mret, storeVars, hubVars, restVars>>

\* comm_manager.py:236-237: raw_bytes = self.ser.read(self.ser.in_waiting),
\* decoded and split into lines
R_Read(t) ==
    /\ threads[t].pc = "read"
    /\ \/ ser = 0 /\ SetPc(t, "crashed") /\ UNCHANGED inbuf
       \/ ser # 0 /\ ser \notin portOpen /\ \E p \in {"crashed", "except"} : SetPc(t, p)
          /\ UNCHANGED inbuf
       \/ ser \in portOpen /\ SetPc(t, "except") /\ UNCHANGED inbuf
       \/ /\ ser \in portOpen
          /\ threads' = [threads EXCEPT ![t] = [pc |-> "lines", lines |-> inbuf]]
          /\ inbuf' = <<>>
    /\ UNCHANGED <<is_open, ser, last_ok_time, running, reader_thread, on_data_received,
                   portOpen, nextHandle, sent, now, nextTid, mpc, mop, mret,
                   storeVars, hubVars, restVars>>

\* comm_manager.py:239-263: the next line of raw_lines; a heartbeat sets
\* last_ok_time, a signal line goes to the data callback when one is set,
\* any other line is skipped.
\* comm_manager.py:281: the sleep after the last line.
R_Line(t) ==
    /\ threads[t].pc = "lines"
    /\ IF threads[t].lines = <<>>
       THEN SetPc(t, "test") /\ UNCHANGED last_ok_time
       ELSE LET line == Decode(Head(threads[t].lines)) IN
            IF line.kind = "OK"
            THEN /\ last_ok_time' = now
                 /\ threads' = [threads EXCEPT ![t].lines = Tail(@)]
            ELSE /\ UNCHANGED last_ok_time
                 /\ IF line.kind = "sig" /\ on_data_received
                    THEN SetPc(t, "callback")
                    ELSE threads' = [threads EXCEPT ![t].lines = Tail(@)]
    /\ UNCHANGED <<is_open, ser, running, reader_thread, on_data_received, portOpen,
                   nextHandle, inbuf, sent, now, nextTid, mpc, mop, mret,
                   storeVars, hubVars, restVars>>

\* comm_manager.py:264 -> 393-395 -> main.py:184-194: the event is
\* dispatched to the application's subscriber, which appends it to the store
R_Callback(t) ==
    /\ threads[t].pc = "callback"
    /\ LET line == Decode(Head(threads[t].lines)) IN
         /\ data_history' = add_data_point(data_history, line.key, line.val, now)
         /\ NoteAppend(line.key, line.val, now)
    /\ threads' = [threads EXCEPT ![t] = [pc |-> "lines", lines |-> Tail(@.lines)]]
    /\ UNCHANGED <<connVars, now, nextTid, mpc, mop, mret, max_points, start_time,
                   hubVars, restVars>>

\* comm_manager.py:268-274: the error dialog, then self.disconnect()
R_Except(t) ==
    /\ threads[t].pc = "except"
    /\ SetPc(t, "d_check")
    /\ UNCHANGED <<connVars, now, nextTid, mpc, mop, mret, storeVars, hubVars, restVars>>

\* comm_manager.py:154, 165, 278
R_DCheck(t) ==
    /\ threads[t].pc = "d_check"
    /\ SetPc(t, IF DisconnectGuard(ser) THEN "d_close" ELSE "done")
    /\ UNCHANGED <<connVars, now, nextTid, mpc, mop, mret, storeVars, hubVars, restVars>>

\* comm_manager.py:156, 161-164, 278: self.ser.close(); on None the
\* AttributeError, like a failure of close, is caught at 161
R_DClose(t) ==
    /\ threads[t].pc = "d_close"
    /\ \/ ser = 0 /\ SetPc(t, "done") /\ UNCHANGED <<portOpen, inbuf>>
       \/ ser \in portOpen /\ SetPc(t, "done") /\ UNCHANGED <<portOpen, inbuf>>
       \/ ser # 0 /\ SetPc(t, "d_open") /\ ClosePort(ser)
    /\ UNCHANGED <<is_open, ser, last_ok_time, running, reader_thread, on_data_received,
                   nextHandle, sent, now, nextTid, mpc, mop, mret, storeVars, hubVars, restVars>>

\* comm_manager.py:157
R_DOpen(t) ==
    /\ threads[t].pc = "d_open"
    /\ is_open' = FALSE
    /\ SetPc(t, "d_ser")
    /\ UNCHANGED <<ser, last_ok_time, running, reader_thread, on_data_received, portOpen,
                   nextHandle, inbuf, sent, now, nextTid, mpc, mop, mret,
                   storeVars, hubVars, restVars>>

\* comm_manager.py:158-160, 278
R_DSer(t) ==
    /\ threads[t].pc = "d_ser"
    /\ ser' = 0
    /\ SetPc(t, "done")
    /\ UNCHANGED <<is_open, last_ok_time, running, reader_thread, on_data_received,
                   portOpen, nextHandle, inbuf, sent, now, nextTid, mpc, mop, mret,
                   storeVars, hubVars, restVars>>

Reader(t) ==
    \/ R_Test(t) \/ R_Poll(t) \/ R_Read(t) \/ R_Line(t) \/ R_Callback(t)
    \/ R_Except(t) \/ R_DCheck(t) \/ R_DClose(t) \/ R_DOpen(t) \/ R_DSer(t)

(***************************************************************************)
(* Control context: CommunicationManager.toggle_connection, connect,       *)
(* disconnect, send_message and the SerialProtocol methods they call       *)
(***************************************************************************)
\* A connect is attempted while sessions remain
Budget == nextHandle <= MaxSessions

\* The operation returns r to its caller
Return(r) == mpc' = "idle" /\ mret' = r

\* comm_manager.py:174-177 and 333-336: what the caller of stop() and
\* disconnect() returns, given the result d of disconnect()
AfterDisconnect(op, d) == IF op = "disconnect" THEN d ELSE "F"

\* disconnect that runs stop() and disconnect() whatever the state
CMDisconnectGuardAlways(o) == TRUE

\* comm_manager.py:333: if self.protocol.is_connected()
CMDisconnectGuard(o) == o

\* comm_manager.py:321: CommunicationManager.connect calls
\* self.protocol.connect() whatever the connection state
CMConnectGuard(o) == TRUE

\* comm_manager.py:306-307, 174, 178-179
M_CallToggle ==
    /\ mpc = "idle"
    /\ is_open \/ Budget
    /\ mop' = "toggle" /\ mret' = "none"
    /\ mpc' = IF is_open THEN "stop" ELSE "c_open"
    /\ UNCHANGED <<connVars, now, threads, nextTid, storeVars, hubVars, restVars>>

\* comm_manager.py:314-321
M_CallConnect ==
    /\ mpc = "idle"
    /\ Budget
    /\ mop' = "connect"
    /\ IF CMConnectGuard(is_open)
       THEN mpc' = "c_open" /\ mret' = "none"
       ELSE Return("T")
    /\ UNCHANGED <<connVars, now, threads, nextTid, storeVars, hubVars, restVars>>

\* comm_manager.py:326-336
M_CallDisconnect ==
    /\ mpc = "idle"
    /\ mop' = "disconnect"
    /\ IF CMDisconnectGuard(is_open)
       THEN mpc' = "stop" /\ mret' = "none"
       ELSE Return("T")
    /\ UNCHANGED <<connVars, now, threads, nextTid, storeVars, hubVars, restVars>>

\* comm_manager.py:358, 195-198
M_CallSend ==
    /\ mpc = "idle"
    /\ mop' = "send"
    /\ IF is_open
       THEN mpc' = "w_write" /\ mret' = "none"
       ELSE Return("F")
    /\ UNCHANGED <<connVars, now, threads, nextTid, storeVars, hubVars, restVars>>

\* comm_manager.py:224-225: self._running = False, then the test of
\* self.reader_thread and is_alive()
M_Stop ==
    /\ mpc = "stop"
    /\ running' = FALSE
    /\ mpc' = IF reader_thread # 0 /\ Alive(reader_thread) THEN "join" ELSE "d_check"
    /\ UNCHANGED <<is_open, ser, last_ok_time, reader_thread, on_data_received, portOpen,
                   nextHandle, inbuf, sent, now, threads, nextTid, mop, mret,
                   storeVars, hubVars, restVars>>

\* The places where an iteration of the reader can take longer than the
\* timeout of join: inside a subscriber callback (264) and in the error
\* dialog (270)
Blocking(t) == threads[t].pc \in {"callback", "except"}

\* comm_manager.py:226: join(timeout=1.0) returns when the thread has ended
\* or when the timeout has expired
JoinReturns(t) == ~Alive(t) \/ Blocking(t)

M_Join ==
    /\ mpc = "join"
    /\ JoinReturns(reader_thread)
    /\ mpc' = "d_check"
    /\ UNCHANGED <<connVars, now, threads, nextTid, mop, mret, storeVars, hubVars, restVars>>

\* comm_manager.py:154, 165
M_DCheck ==
    /\ mpc = "d_check"
    /\ IF DisconnectGuard(ser)
       THEN mpc' = "d_close" /\ UNCHANGED mret
       ELSE Return(AfterDisconnect(mop, "T"))
    /\ UNCHANGED <<connVars, now, threads, nextTid, mop, storeVars, hubVars, restVars>>

\* comm_manager.py:156, 161-164
M_DClose ==
    /\ mpc = "d_close"
    /\ \/ ser = 0 /\ Return(AfterDisconnect(mop, "F")) /\ UNCHANGED <<portOpen, inbuf>>
       \/ ser \in portOpen /\ Return(AfterDisconnect(mop, "F"))
          /\ UNCHANGED <<portOpen, inbuf>>
       \/ ser # 0 /\ mpc' = "d_open" /\ ClosePort(ser) /\ UNCHANGED mret
    /\ UNCHANGED <<is_open, ser, last_ok_time, running, reader_thread, on_data_received,
                   nextHandle, sent, now, threads, nextTid, mop, storeVars, hubVars, restVars>>

\* comm_manager.py:157
M_DOpen ==
    /\ mpc = "d_open"
    /\ is_open' = FALSE
    /\ mpc' = "d_ser"
    /\ UNCHANGED <<ser, last_ok_time, running, reader_thread, on_data_received, portOpen,
                   nextHandle, inbuf, sent, now, threads, nextTid, mop, mret,
                   storeVars, hubVars, restVars>>

\* comm_manager.py:158-160
M_DSer ==
    /\ mpc = "d_ser"
    /\ ser' = 0
    /\ Return(AfterDisconnect(mop, "T"))
    /\ UNCHANGED <<is_open, last_ok_time, running, reader_thread, on_data_received,
                   portOpen, nextHandle, inbuf, sent, now, threads, nextTid, mop,
                   storeVars, hubVars, restVars>>

\* comm_manager.py:130-135, 140-145: select_port() may return None; the
\* port opens (self.ser is the new Serial object; the object it replaces is
\* finalized, which closes its port) or serial.Serial raises
M_COpen ==
    /\ mpc = "c_open"
    /\ \/ Return("F") /\ UNCHANGED <<ser, is_open, portOpen, nextHandle, inbuf>>
       \/ /\ ser' = 0 /\ is_open' = FALSE
          /\ ClosePort(ser)
          /\ Return("F") /\ UNCHANGED nextHandle
       \/ /\ ser' = nextHandle
          /\ portOpen' = (portOpen \ {ser}) \cup {nextHandle}
          /\ nextHandle' = nextHandle + 1
          /\ mpc' = "c_flag"
          /\ UNCHANGED <<is_open, inbuf, mret>>
    /\ UNCHANGED <<last_ok_time, running, reader_thread, on_data_received, sent, now,
                   threads, nextTid, mop, storeVars, hubVars, restVars>>

\* comm_manager.py:136
M_CFlag ==
    /\ mpc = "c_flag"
    /\ is_open' = TRUE
    /\ mpc' = "c_time"
    /\ UNCHANGED <<ser, last_ok_time, running, reader_thread, on_data_received, portOpen,
                   nextHandle, inbuf, sent, now, threads, nextTid, mop, mret,
                   storeVars, hubVars, restVars>>

\* comm_manager.py:137-139, then 180-181 or 322-323
M_CTime ==
    /\ mpc = "c_time"
    /\ last_ok_time' = now
    /\ mpc' = "s_check"
    /\ UNCHANGED <<is_open, ser, running, reader_thread, on_data_received, portOpen,
                   nextHandle, inbuf, sent, now, threads, nextTid, mop, mret,
                   storeVars, hubVars, restVars>>

\* comm_manager.py:215-216
StartGuard(o) == o

\* comm_manager.py:215-218
M_SCheck ==
    /\ mpc = "s_check"
    /\ IF StartGuard(is_open)
       THEN /\ running' = TRUE
            /\ mpc' = "s_thread" /\ UNCHANGED mret
       ELSE Return("T") /\ UNCHANGED running
    /\ UNCHANGED <<is_open, ser, last_ok_time, reader_thread, on_data_received, portOpen,
                   nextHandle, inbuf, sent, now, threads, nextTid, mop,
                   storeVars, hubVars, restVars>>

\* comm_manager.py:219-220, then 182 or 324
M_SThread ==
    /\ mpc = "s_thread"
    /\ reader_thread' = nextTid
    /\ threads' = [threads EXCEPT ![nextTid] = [pc |-> "test", lines |-> <<>>]]
    /\ nextTid' = nextTid + 1
    /\ Return("T")
    /\ UNCHANGED <<is_open, ser, last_ok_time, running, on_data_received, portOpen,
                   nextHandle, inbuf, sent, now, mop, storeVars, hubVars, restVars>>

\* comm_manager.py:200-211: self.ser.write and flush.  On None the
\* AttributeError is not caught at 206 and leaves send_message; on a closed
\* port the library raises a SerialException; on an open port the write
\* succeeds or fails.  A failure goes on to self.disconnect().
M_Write ==
    /\ mpc = "w_write"
    /\ \/ ser = 0 /\ Return("raise")
       \/ ser # 0 /\ ser \notin portOpen /\ mpc' = "d_check" /\ UNCHANGED mret
       \/ ser \in portOpen /\ Return("T")
       \/ ser \in portOpen /\ mpc' = "d_check" /\ UNCHANGED mret
    /\ UNCHANGED <<connVars, now, threads, nextTid, mop, storeVars, hubVars, restVars>>

Main ==
    \/ M_CallToggle \/ M_CallConnect \/ M_CallDisconnect \/ M_CallSend
    \/ M_Stop \/ M_Join \/ M_DCheck \/ M_DClose \/ M_DOpen \/ M_DSer
    \/ M_COpen \/ M_CFlag \/ M_CTime \/ M_SCheck \/ M_SThread \/ M_Write

(***************************************************************************)
(* The device                                                              *)
(***************************************************************************)
\* The device sends a heartbeat, or a signal line whose value is the number
\* of the line
DeviceSend ==
    /\ portOpen # {}
    /\ sent < MaxLines
    /\ sent' = sent + 1
    /\ \E line \in {OkLine} \cup {SigLine(k, sent + 1) : k \in KnownKeys} :
         inbuf' = Append(inbuf, line)
    /\ UNCHANGED <<is_open, ser, last_ok_time, running, reader_thread, on_data_received,
                   portOpen, nextHandle, now, thrVars, storeVars, hubVars, restVars>>

(***************************************************************************)
(* Spec: the connection lifecycle                                          *)
(***************************************************************************)
HubIdle ==
    /\ dpc = "idle" /\ dit = 0 /\ dcur = 0 /\ dsnap = <<>> /\ dgot = <<>>
    /\ dcaught = 0 /\ dprop = FALSE /\ selfUnsub = {} /\ events = 0

RaceIdle == rc = <<>> /\ pre = <<>> /\ rounds = 0

CodecIdle ==
    tx_key = <<>> /\ tx_value = 0 /\ wire = <<>> /\ rx_events = <<>> /\ cpc = "done"

\* logging_start_time before the first session
NoTime == -1

\* data_manager.py:29-34
LogIdle ==
    /\ logging_active = FALSE /\ logging_start_time = NoTime /\ logging_vars = <<>>
    /\ csv_file = 0 /\ csv_writer = 0 /\ files = <<>> /\ lret = "none"
    /\ disk = <<>>

\* comm_manager.py:20-23, 94-100, 296-297; main.py:37-46: the store holds an
\* empty series for every known key and the application's subscriber is
\* registered.  No operation of the lifecycle branches on the time: it is
\* followed at the instant the store was created (time.time() is positive,
\* last_ok_time starts at 0), and the clock runs in SpecStore.
Init ==
    /\ is_open = FALSE /\ ser = 0 /\ last_ok_time = 0 /\ running = FALSE
    /\ reader_thread = 0 /\ on_data_received = TRUE
    /\ portOpen = {} /\ nextHandle = 1 /\ inbuf = <<>> /\ sent = 0 /\ now = 1
    /\ threads = [t \in Tids |-> NoThread] /\ nextTid = 1
    /\ mpc = "idle" /\ mop = "none" /\ mret = "none"
    /\ data_history = [k \in KnownKeys |-> <<>>] /\ appended = [k \in KnownKeys |-> <<>>]
    /\ max_points = MaxCap /\ start_time = 1
    /\ data_callbacks = <<1>> /\ HubIdle /\ RaceIdle /\ CodecIdle /\ LogIdle

Next ==
    \/ Main
    \/ \E t \in Tids : Reader(t)
    \/ DeviceSend

Spec == Init /\ [][Next]_vars

(***************************************************************************)
(* Claims about the connection lifecycle (Spec)                            *)
(***************************************************************************)
Idle == ~is_open /\ ser = 0

\* The control context executes self.ser.close() in a disconnect the user
\* asked for (toggle_connection or CommunicationManager.disconnect)
UserClose ==
    /\ mpc = "d_close" /\ mpc' = "d_open"
    /\ mop \in {"toggle", "disconnect"}

\* C1: when a user-requested disconnect (stop() then disconnect()) executes
\* ser.close(), the reader thread that stop() joined has terminated.
C1_CloseOnlyAfterReaderEnded ==
    [][UserClose => (reader_thread # 0 => ~Alive(reader_thread))]_vars

\* Thread t leaves _read_serial through the except branch of line 268
ErrorExit(t) ==
    /\ threads[t].pc \in {"d_check", "d_close", "d_open", "d_ser"}
    /\ threads'[t].pc = "done"

\* C2: when a read error ends the reader loop, the loop ends with the
\* connection Idle (is_open False, handle released) and the thread ended.
C2_ReadErrorEndsIdle ==
    [][\A t \in Tids : ErrorExit(t) => (~is_open' /\ ser' = 0 /\ ~Alive(t)')]_vars

\* send_message returns to its caller after a failed write (the disconnect
\* of line 210 has run)
SendFailureReturns ==
    /\ mop = "send" /\ mpc \in {"d_check", "d_close", "d_ser"}
    /\ mpc' = "idle"

\* Thread t evaluates self.ser.in_waiting or self.ser.read
ReaderTouchesPort(t) ==
    /\ threads[t].pc \in {"poll", "read"}
    /\ threads'[t] # threads[t]

\* C3: when the write of send_message fails, send_message returns False with
\* the connection Idle, and no reader thread reads the handle that the
\* failed send released.
C3_SendFailureEndsIdle ==
    [][/\ SendFailureReturns => (mret' = "F" /\ ~is_open' /\ ser' = 0)
       /\ \A t \in Tids :
            (mop = "send" /\ mpc \in {"d_open", "d_ser"} /\ ReaderTouchesPort(t))
                => ser \in portOpen]_vars

Increasing(s) == \A i, j \in 1..Len(s) : i < j => s[i][1] < s[j][1]

\* C8: the points of every series are in the order in which their lines were
\* sent and parsed (the value of a line is its number in the stream).
C8_SeriesInLineOrder == \A k \in DOMAIN data_history : Increasing(data_history[k])

\* C9: connect() while the connection is Open is a no-op: at the statements
\* that select and open the port (130-135) nothing is opened and the handle
\* and the connection state stay as they are.
C9_ConnectWhileOpenIsNoOp ==
    [][(mpc = "c_open" /\ is_open)
          => UNCHANGED <<ser, is_open, portOpen, nextHandle>>]_vars

\* The last operation of the control context was a disconnect that
\* returned success
DisconnectSucceeded == mpc = "idle" /\ mop = "disconnect" /\ mret = "T"

\* C10: disconnect while Idle returns success and changes nothing, in
\* CommunicationManager.disconnect (is_open False: no stop(), no disconnect())
\* and in SerialProtocol.disconnect (no handle: nothing closed, no field
\* written); a disconnect that returned success leaves a state in which one
\* of the two applies, so that a second disconnect is this no-op.
C10_DisconnectIdleIsNoOp ==
    /\ [][/\ (M_CallDisconnect /\ ~is_open) => (mpc' = "idle" /\ mret' = "T")
          /\ (M_DCheck /\ ser = 0)
                => /\ mpc' = "idle" /\ mret' = AfterDisconnect(mop, "T")
                   /\ UNCHANGED <<is_open, ser, portOpen, last_ok_time, running>>
          /\ \A t \in Tids : (R_DCheck(t) /\ ser = 0)
                => /\ threads'[t].pc = "done"
                   /\ UNCHANGED <<is_open, ser, portOpen, last_ok_time, running>>]_vars
    /\ [](DisconnectSucceeded => (~is_open \/ ser = 0))

\* A session ended without stop() (_running is still True), and a
\* disconnect called in the Idle state it left has returned success
C10_Witness == DisconnectSucceeded /\ Idle /\ running

\* C11: a reader thread is started only when the connection is Open: start()
\* reached with is_open False starts no thread and leaves _running as it
\* is, and every thread start (219-220) happens with is_open True.
C11_ThreadStartsOnlyWhenOpen ==
    [][/\ (M_SCheck /\ ~is_open)
             => (mpc' = "idle" /\ UNCHANGED <<running, reader_thread, threads, nextTid>>)
       /\ M_SThread => is_open]_vars

(***************************************************************************)
(* SpecLines: the for loop of _read_serial over the lines of one read      *)
(* (comm_manager.py:239-266).  The connection is Open, the reader thread   *)
(* has read two lines: any text of up to MaxText characters, then the      *)
(* line of a known key.                                                    *)
(***************************************************************************)
MaxText == 6

WireChars == {"O", "K", " ", ":", "-", ".", "1"}
Texts == UNION {[1..n -> WireChars] : n \in 0..MaxText}

\* The line that follows in the same read
FollowLine == SigLine(<<"a">>, 1)

\* The state connect() and start() leave at time 0, and the reader at
\* line 239 one time unit later
LinesInit ==
    /\ is_open = TRUE /\ ser = 1 /\ last_ok_time = 0 /\ running = TRUE
    /\ reader_thread = 1 /\ on_data_received = TRUE
    /\ portOpen = {1} /\ nextHandle = 2 /\ inbuf = <<>> /\ sent = 2 /\ now = 1
    /\ \E x \in Texts :
         threads = [t \in Tids |-> IF t = 1 THEN [pc |-> "lines", lines |-> <<x, FollowLine>>]
                                  ELSE NoThread]
    /\ nextTid = 2
    /\ mpc = "idle" /\ mop = "toggle" /\ mret = "T"
    /\ data_history = [k \in KnownKeys |-> <<>>] /\ appended = [k \in KnownKeys |-> <<>>]
    /\ max_points = MaxCap /\ start_time = 0
    /\ data_callbacks = <<1>> /\ HubIdle /\ RaceIdle /\ CodecIdle /\ LogIdle

LinesNext == \E t \in Tids : R_Line(t) \/ R_Callback(t)

SpecLines == LinesInit /\ [][LinesNext]_vars

\* Thread t takes the next line of raw_lines
TakesLine(t) == R_Line(t) /\ threads[t].lines # <<>>

\* The line is the token OK with nothing but whitespace around it
TrimsToOK(line) ==
    \E i \in 1..(Len(line) - 1) :
       /\ line[i] = "O" /\ line[i + 1] = "K"
       /\ \A j \in 1..Len(line) : j \notin {i, i + 1} => line[j] \in WhiteSpace

\* C12: a received line that trims to exactly OK never results in a data
\* callback invocation or a store append, and always sets last_ok_time to
\* the time of processing.
C12_HeartbeatOnlyStampsTime ==
    [][\A t \in Tids : (TakesLine(t) /\ TrimsToOK(Head(threads[t].lines)))
          => /\ last_ok_time' = now
             /\ threads'[t] = [pc |-> "lines", lines |-> Tail(threads[t].lines)]
             /\ UNCHANGED <<data_history, appended>>]_vars

\* A heartbeat line has been processed
C12_Witness ==
    /\ threads[1].pc = "lines" /\ threads[1].lines = <<FollowLine>>
    /\ last_ok_time = now /\ last_ok_time # 0

\* The text of a line between its first and its last character that is not
\* whitespace
Trimmed(line) ==
    LET ink == {i \in 1..Len(line) : line[i] \notin WhiteSpace} IN
      IF ink = {} THEN <<>>
      ELSE SubSeq(line, CHOOSE i \in ink : \A j \in ink : i <= j,
                        CHOOSE i \in ink : \A j \in ink : i >= j)

\* An optional '-', one or more digits, '.', exactly two digits
ValueShape(v) ==
    \E sgn \in {0, 1}, n \in 1..Len(v) :
       /\ Len(v) = sgn + n + 3
       /\ sgn = 1 => v[1] = "-"
       /\ \A i \in (sgn + 1)..(sgn + n) : IsDigit(v[i])
       /\ v[sgn + n + 1] = "."
       /\ IsDigit(v[sgn + n + 2]) /\ IsDigit(v[sgn + n + 3])

\* The line is not OK, and it holds no ':' or the text after its first ':'
\* has not the shape of a value
MalformedLine(line) ==
    LET t == Trimmed(line) IN
      /\ t # <<"O", "K">>
      /\ \/ \A i \in 1..Len(t) : t[i] # ":"
         \/ \E i \in 1..Len(t) :
               /\ t[i] = ":" /\ \A j \in 1..(i - 1) : t[j] # ":"
               /\ ~ValueShape(SubSeq(t, i + 1, Len(t)))

\* C14: a malformed line is discarded: no callback is invoked, no exception
\* leaves the reader loop, the connection stays Open, and the following
\* lines of the same read are still processed.
C14_MalformedLineDiscarded ==
    /\ [][\A t \in Tids : (TakesLine(t) /\ MalformedLine(Head(threads[t].lines)))
             => /\ threads'[t] = [pc |-> "lines", lines |-> Tail(threads[t].lines)]
                /\ UNCHANGED <<is_open, ser, portOpen, running, last_ok_time,
                               data_history, appended>>]_vars
    /\ [](threads[1].pc = "test"
            => /\ is_open /\ ser \in portOpen
               /\ data_history[<<"a">>] # <<>>
               /\ data_history[<<"a">>][Len(data_history[<<"a">>])][1] = 100)

\* A line was discarded (no heartbeat, no point), and the line after it
\* has been appended
C14_Witness ==
    /\ threads[1].pc = "test"
    /\ last_ok_time = 0
    /\ data_history = [k \in KnownKeys |-> <<<<100, now - start_time>>>>]

(***************************************************************************)
(* SpecBeat: one session of the connection lifecycle with the clock        *)
(* running: the control context and the reader thread of Spec, and the     *)
(* time advancing between any two of their steps.                          *)
(***************************************************************************)
\* The clock advances
Tick ==
    /\ now < MaxClock
    /\ now' = now + 1
    /\ UNCHANGED <<connVars, thrVars, storeVars, hubVars, restVars>>

\* The state after construction, at time 0; the handle of the session that
\* is followed is the last one of the budget
BeatInit ==
    /\ is_open = FALSE /\ ser = 0 /\ last_ok_time = 0 /\ running = FALSE
    /\ reader_thread = 0 /\ on_data_received = TRUE
    /\ portOpen = {} /\ nextHandle = MaxSessions /\ inbuf = <<>> /\ sent = 0 /\ now = 0
    /\ threads = [t \in Tids |-> NoThread] /\ nextTid = 1
    /\ mpc = "idle" /\ mop = "none" /\ mret = "none"
    /\ data_history = [k \in KnownKeys |-> <<>>] /\ appended = [k \in KnownKeys |-> <<>>]
    /\ max_points = MaxCap /\ start_time = 0
    /\ data_callbacks = <<1>> /\ HubIdle /\ RaceIdle /\ CodecIdle /\ LogIdle

BeatNext == Next \/ Tick

SpecBeat == BeatInit /\ [][BeatNext]_vars

\* A reader thread takes a heartbeat line of raw_lines
HeartbeatStep ==
    \E t \in Tids : TakesLine(t) /\ TrimsToOK(Head(threads[t].lines))

MaxKey == 2
MaxValue == 150

KeyChars == {"a", ":", " ", LF}
CodecKeys == UNION {[1..n -> KeyChars] : n \in 0..MaxKey}

\* The state connect() and start() leave
ConnOpen ==
    /\ is_open = TRUE /\ ser = 1 /\ last_ok_time = 0 /\ running = TRUE
    /\ reader_thread = 1 /\ on_data_received = TRUE
    /\ portOpen = {1} /\ nextHandle = 2 /\ inbuf = <<>> /\ sent = 0
    /\ threads = [t \in Tids |-> IF t = 1 THEN [pc |-> "test", lines |-> <<>>] ELSE NoThread]
    /\ nextTid = 2
    /\ mpc = "idle" /\ mop = "toggle" /\ mret = "T"

CodecInit ==
    /\ tx_key \in CodecKeys /\ tx_value \in (-MaxValue)..MaxValue
    /\ wire = <<>> /\ rx_events = <<>> /\ cpc = "send"
    /\ ConnOpen /\ now = 0
    /\ data_history = [k \in KnownKeys |-> <<>>] /\ appended = [k \in KnownKeys |-> <<>>]
    /\ max_points = MaxCap /\ start_time = 0
    /\ data_callbacks = <<1>> /\ HubIdle /\ RaceIdle /\ LogIdle

CodecFrame == UNCHANGED <<connVars, now, thrVars, storeVars, hubVars, raceVars, logVars>>

\* comm_manager.py:202-203
K_Send ==
    /\ cpc = "send"
    /\ wire' = Encode(tx_key, tx_value)
    /\ cpc' = "read"
    /\ UNCHANGED <<tx_key, tx_value, rx_events>>
    /\ CodecFrame

\* comm_manager.py:239-264: the events the for loop hands to the callback
RECURSIVE SignalEvents(_)
SignalEvents(lines) ==
    IF lines = <<>> THEN <<>>
    ELSE LET ev == Decode(Head(lines)) IN
           (IF ev.kind = "sig" THEN <<[key |-> ev.key, val |-> ev.val]>> ELSE <<>>)
             \o SignalEvents(Tail(lines))

\* comm_manager.py:236-264
K_Read ==
    /\ cpc = "read"
    /\ rx_events' = SignalEvents(SplitLines(wire))
    /\ cpc' = "done"
    /\ UNCHANGED <<tx_key, tx_value, wire>>
    /\ CodecFrame

CodecNext == K_Send \/ K_Read

SpecCodec == CodecInit /\ [][CodecNext]_vars

\* C15 as stated: for every key and every value with two decimals, the
\* characters send_message produces decode to exactly one signal event with
\* the same key and the same value.
C15_RoundTrip ==
    cpc = "done" => rx_events = <<[key |-> tx_key, val |-> tx_value]>>

\* The key holds no ':' and no line break and does not begin with whitespace
PlainKey(k) ==
    /\ \A i \in 1..Len(k) : k[i] # ":" /\ k[i] \notin LineBreaks
    /\ k # <<>> => k[1] \notin WhiteSpace

\* C15, amended: for every key that holds no ':' and no line break and does
\* not begin with whitespace, and every value with two decimals, the
\* characters send_message produces decode to exactly one signal event with
\* the same key and the same value.
C15_RoundTripPlainKey ==
    (cpc = "done" /\ PlainKey(tx_key))
        => rx_events = <<[key |-> tx_key, val |-> tx_value]>>

\* A negative value below one unit, under a key that ends with a space, has
\* made the round trip
C15_Witness ==
    /\ cpc = "done" /\ tx_key = <<"a", " ">> /\ tx_value = -5
    /\ rx_events = <<[key |-> tx_key, val |-> tx_value]>>

(***************************************************************************)
(* SpecStore: the store, one caller at a time                              *)
(***************************************************************************)
MaxAppends == 3

\* The known keys, and one key the signal definitions do not hold
StoreKeys == {<<"a">>, <<"x">>}
Values == {1, 2}

ConnIdle ==
    /\ is_open = FALSE /\ ser = 0 /\ last_ok_time = 0 /\ running = FALSE
    /\ reader_thread = 0 /\ on_data_received = TRUE
    /\ portOpen = {} /\ nextHandle = 1 /\ inbuf = <<>> /\ sent = 0
    /\ threads = [t \in Tids |-> NoThread] /\ nextTid = 1
    /\ mpc = "idle" /\ mop = "none" /\ mret = "none"

\* data_manager.py:18-34, main.py:37-38
StoreInit ==
    /\ max_points \in 0..MaxCap
    /\ data_history = [k \in KnownKeys |-> <<>>]
    /\ appended = [k \in KnownKeys |-> <<>>]
    /\ start_time = 0 /\ now = 0
    /\ ConnIdle /\ data_callbacks = <<1>> /\ HubIdle /\ RaceIdle /\ CodecIdle /\ LogIdle

\* data_manager.py:45-61
S_AddDataPoint ==
    \E k \in StoreKeys, v \in Values :
        /\ Len(SeriesOf(appended, k)) < MaxAppends
        /\ data_history' = add_data_point(data_history, k, v, now)
        /\ NoteAppend(k, v, now)
        /\ UNCHANGED <<connVars, now, thrVars, max_points, start_time, hubVars, restVars>>

StoreNext ==
    \/ S_AddDataPoint
    \/ Tick

SpecStore == StoreInit /\ [][StoreNext]_vars

\* C4: with max_points = M >= 1 every series has at most M points, and a
\* series that received N > M appends holds the last M appended points in
\* append order (the N - M oldest are dropped).
C4_BoundedFifo ==
    max_points >= 1 =>
        \A k \in DOMAIN data_history :
            LET N == Len(appended[k])
                M == max_points
            IN /\ Len(data_history[k]) <= M
               /\ data_history[k] = IF N > M THEN SubSeq(appended[k], N - M + 1, N)
                                    ELSE appended[k]

\* A series has evicted points and still holds two different ones
C4_Witness ==
    /\ max_points >= 2
    /\ \E k \in DOMAIN data_history :
         /\ Len(appended[k]) > max_points
         /\ data_history[k][1] # data_history[k][2]
         /\ appended[k][1] # data_history[k][1]

(***************************************************************************)
(* SpecHub: CommunicationManager's subscriber list and _dispatch_data.     *)
(* A dispatch runs in the reader thread; a callback may register and       *)
(* unregister callbacks while it is invoked, and so may the control        *)
(* context between any two steps of the dispatch.                          *)
(***************************************************************************)
NCallbacks == 2
MaxEvents == 2

Callbacks == 1..NCallbacks

Range(f) == {f[i] : i \in DOMAIN f}

\* list.remove(x): the list without the first occurrence of x
RECURSIVE ListRemove(_, _)
ListRemove(lst, x) ==
    IF lst = <<>> THEN <<>>
    ELSE IF Head(lst) = x THEN Tail(lst)
    ELSE <<Head(lst)>> \o ListRemove(Tail(lst), x)

\* a register that appends without looking
RegisterAlways(lst, c) == Append(lst, c)

\* comm_manager.py:367-368
Register(lst, c) == IF c \notin Range(lst) THEN Append(lst, c) ELSE lst

\* an unregister that leaves the list as it is
UnregisterNothing(lst, c) == lst

\* comm_manager.py:381-382
Unregister(lst, c) == IF c \in Range(lst) THEN ListRemove(lst, c) ELSE lst

\* comm_manager.py:289-297, 20-23
HubInit ==
    /\ data_callbacks = <<>> /\ HubIdle
    /\ is_open = FALSE /\ ser = 0 /\ last_ok_time = 0 /\ running = FALSE
    /\ reader_thread = 0 /\ on_data_received = FALSE
    /\ portOpen = {} /\ nextHandle = 1 /\ inbuf = <<>> /\ sent = 0 /\ now = 0
    /\ threads = [t \in Tids |-> NoThread] /\ nextTid = 1
    /\ mpc = "idle" /\ mop = "none" /\ mret = "none"
    /\ data_history = [k \in KnownKeys |-> <<>>] /\ appended = [k \in KnownKeys |-> <<>>]
    /\ max_points = MaxCap /\ start_time = 0 /\ RaceIdle /\ CodecIdle /\ LogIdle

HubFrame ==
    UNCHANGED <<is_open, ser, last_ok_time, running, reader_thread, portOpen, nextHandle,
                inbuf, sent, now, thrVars, storeVars, restVars>>

\* comm_manager.py:360-372, called by the control context
H_Register ==
    \E c \in Callbacks :
        /\ data_callbacks' = Register(data_callbacks, c)
        /\ on_data_received' = TRUE
        /\ selfUnsub' = selfUnsub \ {c}
        /\ UNCHANGED <<dpc, dit, dcur, dsnap, dgot, dcaught, dprop, events>>
        /\ HubFrame

\* comm_manager.py:374-382, called by the control context
H_Unregister ==
    \E c \in Callbacks :
        /\ data_callbacks' = Unregister(data_callbacks, c)
        /\ UNCHANGED <<on_data_received, dpc, dit, dcur, dsnap, dgot, dcaught, dprop,
                       selfUnsub, events>>
        /\ HubFrame

\* comm_manager.py:263-264, 384-393: the reader thread calls the dispatcher
\* and the for loop creates its list iterator
H_Dispatch ==
    /\ dpc = "idle" /\ ~dprop
    /\ on_data_received
    /\ events < MaxEvents
    /\ events' = events + 1
    /\ dpc' = "loop" /\ dit' = 0
    /\ dsnap' = data_callbacks /\ dgot' = <<>> /\ dcaught' = 0
    /\ UNCHANGED <<data_callbacks, on_data_received, dcur, dprop, selfUnsub>>
    /\ HubFrame

\* comm_manager.py:393-395: the list iterator yields the item at its index,
\* in the list as it is now, or ends the loop
H_IterNext ==
    /\ dpc = "loop"
    /\ IF dit < Len(data_callbacks)
       THEN /\ dcur' = data_callbacks[dit + 1]
            /\ dit' = dit + 1
            /\ dgot' = Append(dgot, data_callbacks[dit + 1])
            /\ dpc' = "in_cb"
       ELSE /\ dpc' = "idle"
            /\ UNCHANGED <<dcur, dit, dgot>>
    /\ UNCHANGED <<data_callbacks, on_data_received, dsnap, dcaught, dprop, selfUnsub,
                   events>>
    /\ HubFrame

\* the callback returns
H_CbReturn ==
    /\ dpc = "in_cb"
    /\ dpc' = "loop"
    /\ UNCHANGED <<data_callbacks, on_data_received, dit, dcur, dsnap, dgot, dcaught,
                   dprop, selfUnsub, events>>
    /\ HubFrame

\* comm_manager.py:396: except Exception
Catches == TRUE

\* comm_manager.py:394-397: the callback raises
H_CbRaise ==
    /\ dpc = "in_cb"
    /\ IF Catches
       THEN dpc' = "loop" /\ dcaught' = dcaught + 1 /\ UNCHANGED dprop
       ELSE dpc' = "idle" /\ dprop' = TRUE /\ UNCHANGED dcaught
    /\ UNCHANGED <<data_callbacks, on_data_received, dit, dcur, dsnap, dgot, selfUnsub,
                   events>>
    /\ HubFrame

\* comm_manager.py:374-382, called by the callback being invoked, on itself
\* or on another callback
H_CbUnregister ==
    \E c \in Callbacks :
        /\ dpc = "in_cb"
        /\ data_callbacks' = Unregister(data_callbacks, c)
        /\ selfUnsub' = IF c = dcur THEN selfUnsub \cup {c} ELSE selfUnsub
        /\ UNCHANGED <<on_data_received, dpc, dit, dcur, dsnap, dgot, dcaught, dprop,
                       events>>
        /\ HubFrame

HubNext ==
    \/ H_Register \/ H_Unregister
    \/ H_Dispatch \/ H_IterNext
    \/ H_CbReturn \/ H_CbRaise \/ H_CbUnregister

SpecHub == HubInit /\ [][HubNext]_vars

Count(lst, c) == Cardinality({i \in DOMAIN lst : lst[i] = c})

\* The for loop of _dispatch_data ends
DispatchEnds == dpc = "loop" /\ dpc' = "idle"

\* C6: a dispatch invokes every registered callback (registered when the
\* dispatch began and still registered when it ends) exactly once, whatever
\* exceptions the callbacks raise, and no exception leaves _dispatch_data.
C6_EveryCallbackOnce ==
    [][/\ ~dprop'
       /\ DispatchEnds =>
            \A c \in Range(dsnap) \cap Range(data_callbacks') : Count(dgot, c) = 1]_vars

\* C7: a callback that unregistered itself while it was invoked does not
\* make the dispatch raise and is not invoked again (until it is registered
\* again).
C7_SelfUnregister ==
    [][/\ ~dprop'
       /\ (dpc = "loop" /\ dpc' = "in_cb") => dcur' \notin selfUnsub]_vars

\* A callback unregistered itself during the first event, and the second
\* event has been dispatched to the others without it
C7_Witness ==
    /\ events = 2 /\ dpc = "idle" /\ dgot # <<>>
    /\ \E c \in selfUnsub : c \notin Range(dgot) /\ c \notin Range(data_callbacks)

(***************************************************************************)
(* SpecRace: the store called by two threads at once.  The reader thread   *)
(* appends through the data callback (main.py:194); the control context    *)
(* appends a TX value (plot_widget.py:570) or clears the store             *)
(* (main.py:287).  Nothing in DataManager excludes one caller while the    *)
(* other is inside a method, so the statements of the two interleave.      *)
(* Each caller runs at most one method per round; a round ends when both   *)
(* have returned.                                                          *)
(***************************************************************************)
MaxRounds == 2

Callers == {"reader", "main"}

RcIdle == [pc |-> "idle", op |-> "none", key |-> <<>>, val |-> 0, tmp |-> <<>>,
           it |-> 0, size |-> 0]

\* The keys of the dict in insertion order: the known keys, then the others
DictOrder == <<<<"a">>, <<"x">>>>

KeysOf(dh) == SelectSeq(DictOrder, LAMBDA k : k \in DOMAIN dh)

\* data_manager.py:18-34, main.py:37-38
RaceInit ==
    /\ max_points = MaxCap
    /\ data_history = [k \in KnownKeys |-> <<>>]
    /\ appended = [k \in KnownKeys |-> <<>>]
    /\ start_time = 0 /\ now = 0
    /\ ConnIdle /\ data_callbacks = <<1>> /\ HubIdle
    /\ rc = [c \in Callers |-> RcIdle]
    /\ pre = [k \in KnownKeys |-> <<>>]
    /\ rounds = 0
    /\ CodecIdle /\ LogIdle

RaceFrame ==
    UNCHANGED <<connVars, now, thrVars, max_points, start_time, hubVars, codecVars, logVars>>

\* main.py:194, plot_widget.py:570: a caller enters add_data_point
X_CallAdd(c) ==
    \E k \in StoreKeys, v \in Values :
        /\ rc[c].pc = "idle" /\ rounds < MaxRounds
        /\ rc' = [rc EXCEPT ![c] = [RcIdle EXCEPT !.pc = "a_check", !.op = "add",
                                                  !.key = k, !.val = v]]
        /\ UNCHANGED <<data_history, appended, pre, rounds>>
        /\ RaceFrame

\* data_manager.py:53
X_AddCheck(c) ==
    /\ rc[c].pc = "a_check"
    /\ rc' = [rc EXCEPT ![c].pc = IF rc[c].key \notin DOMAIN data_history
                                  THEN "a_new" ELSE "a_append"]
    /\ UNCHANGED <<data_history, appended, pre, rounds>>
    /\ RaceFrame

\* data_manager.py:54
X_AddNew(c) ==
    /\ rc[c].pc = "a_new"
    /\ data_history' = SetKey(data_history, rc[c].key, <<>>)
    /\ rc' = [rc EXCEPT ![c].pc = "a_append"]
    /\ UNCHANGED <<appended, pre, rounds>>
    /\ RaceFrame

\* data_manager.py:56-57
X_AddAppend(c) ==
    /\ rc[c].pc = "a_append"
    /\ data_history' = SetKey(data_history, rc[c].key,
                              Append(data_history[rc[c].key],
                                     <<rc[c].val, now - start_time>>))
    /\ NoteAppend(rc[c].key, rc[c].val, now)
    /\ rc' = [rc EXCEPT ![c].pc = "a_len"]
    /\ UNCHANGED <<pre, rounds>>
    /\ RaceFrame

\* data_manager.py:60
X_AddLen(c) ==
    /\ rc[c].pc = "a_len"
    /\ rc' = [rc EXCEPT ![c].pc = IF Len(data_history[rc[c].key]) > max_points
                                  THEN "a_slice" ELSE "done"]
    /\ UNCHANGED <<data_history, appended, pre, rounds>>
    /\ RaceFrame

\* data_manager.py:61, the right-hand side
X_AddSlice(c) ==
    /\ rc[c].pc = "a_slice"
    /\ rc' = [rc EXCEPT ![c].pc = "a_store",
                        ![c].tmp = PySliceLast(data_history[rc[c].key], max_points)]
    /\ UNCHANGED <<data_history, appended, pre, rounds>>
    /\ RaceFrame

\* data_manager.py:61, the assignment
X_AddStore(c) ==
    /\ rc[c].pc = "a_store"
    /\ data_history' = SetKey(data_history, rc[c].key, rc[c].tmp)
    /\ rc' = [rc EXCEPT ![c].pc = "done"]
    /\ UNCHANGED <<appended, pre, rounds>>
    /\ RaceFrame

\* main.py:287, data_manager.py:92: the control context enters clear_data
\* and the for loop creates its dict iterator
X_CallClear ==
    /\ rc["main"].pc = "idle" /\ rounds < MaxRounds
    /\ rc' = [rc EXCEPT !["main"] = [RcIdle EXCEPT !.pc = "c_iter", !.op = "clear",
                                     !.size = Cardinality(DOMAIN data_history)]]
    /\ UNCHANGED <<data_history, appended, pre, rounds>>
    /\ RaceFrame

\* data_manager.py:92: the dict iterator raises RuntimeError when the dict
\* has changed size, else yields the next key or ends the loop
X_ClearIter ==
    /\ rc["main"].pc = "c_iter"
    /\ rc' = [rc EXCEPT !["main"].pc =
                IF Cardinality(DOMAIN data_history) # rc["main"].size THEN "raised"
                ELSE IF rc["main"].it < rc["main"].size THEN "c_set"
                ELSE "done"]
    /\ UNCHANGED <<data_history, appended, pre, rounds>>
    /\ RaceFrame

\* data_manager.py:93
X_ClearSet ==
    /\ rc["main"].pc = "c_set"
    /\ LET k == KeysOf(data_history)[rc["main"].it + 1] IN
         /\ data_history' = SetKey(data_history, k, <<>>)
         /\ appended' = SetKey(appended, k, <<>>)
    /\ rc' = [rc EXCEPT !["main"].pc = "c_iter", !["main"].it = @ + 1]
    /\ UNCHANGED <<pre, rounds>>
    /\ RaceFrame

Returned(c) == rc[c].pc \in {"done", "raised"}

\* Both callers are outside the store again
X_RoundEnd ==
    /\ \A c \in Callers : rc[c].pc \in {"idle", "done"}
    /\ \E c \in Callers : rc[c].pc = "done"
    /\ rc' = [c \in Callers |-> RcIdle]
    /\ pre' = data_history
    /\ rounds' = rounds + 1
    /\ UNCHANGED <<data_history, appended>>
    /\ RaceFrame

RaceNext ==
    \/ \E c \in Callers :
         \/ X_CallAdd(c) \/ X_AddCheck(c) \/ X_AddNew(c) \/ X_AddAppend(c)
         \/ X_AddLen(c) \/ X_AddSlice(c) \/ X_AddStore(c)
    \/ X_CallClear \/ X_ClearIter \/ X_ClearSet
    \/ X_RoundEnd

SpecRace == RaceInit /\ [][RaceNext]_vars

\* The store after the method called by c has run alone on the store dh
RunAlone(dh, c) ==
    IF rc[c].op = "add" THEN add_data_point(dh, rc[c].key, rc[c].val, now)
    ELSE IF rc[c].op = "clear" THEN [k \in DOMAIN dh |-> <<>>]
    ELSE dh

\* The stores the two calls of this round produce when one runs after the
\* other
SequentialOutcomes ==
    {RunAlone(RunAlone(pre, "reader"), "main"), RunAlone(RunAlone(pre, "main"), "reader")}

\* C5: store operations of the reader thread and of the control context
\* exclude each other: no call raises, and when both have returned the store
\* is one that the two calls produce in some sequential order.
C5_StoreCallsSerializable ==
    /\ \A c \in Callers : rc[c].pc # "raised"
    /\ (\A c \in Callers : rc[c].pc \in {"idle", "done"})
          => data_history \in SequentialOutcomes

(***************************************************************************)
(* SpecLog: CSV logging of DataManager (data_manager.py:104-167).  The     *)
(* control context starts and stops sessions (logger_widget.py:120-134)    *)
(* and the timer of main.py:176 calls log_data_point; the store receives   *)
(* points in between.  A file is the sequence of the rows it has received. *)
(***************************************************************************)
\* files opened, data rows written and points received, altogether
MaxWork == 3

LogValues == {0, 1}

\* logger_widget.py:66-76, 108-118: the signals selected for logging, each
\* of them once
SessionLists ==
    {l \in UNION {[1..n -> StoreKeys] : n \in 0..Cardinality(StoreKeys)} :
        \A i, j \in 1..Len(l) : l[i] = l[j] => i = j}

\* a header row without the signal keys
HeaderNoKeys(keys) == [kind |-> "header", t |-> 0, fields |-> <<>>]

\* data_manager.py:133: ["t"] + self.logging_vars
Header(keys) == [kind |-> "header", t |-> 0, fields |-> keys]

\* a lookup that returns the oldest value of the series
GetOldestValue(dh, k) ==
    LET data == IF k \in DOMAIN dh THEN dh[k] ELSE <<>> IN
      IF data # <<>> THEN <<data[1][1]>> ELSE <<>>

\* data_manager.py:85-88: get_latest_value; <<>> is None, <<v>> is v
get_latest_value(dh, k) ==
    LET data == IF k \in DOMAIN dh THEN dh[k] ELSE <<>> IN
      IF data # <<>> THEN <<data[Len(data)][1]>> ELSE <<>>

\* a lookup that creates the series of an unknown key
DictSetDefault(dh, k) == IF k \in DOMAIN dh THEN dh ELSE SetKey(dh, k, <<>>)

\* data_manager.py:85: the store after self.data_history.get(signal, [])
DictGet(dh, k) == dh

\* data_manager.py:160-162: the store after the lookups of one row
RECURSIVE AfterLookups(_, _)
AfterLookups(dh, keys) ==
    IF keys = <<>> THEN dh ELSE AfterLookups(DictGet(dh, Head(keys)), Tail(keys))

\* a field that is 0 when there is no value
FieldZero(value) == IF value # <<>> THEN value ELSE <<0>>

\* data_manager.py:163: value if value is not None else ""; <<>> is the
\* empty field
Field(value) == IF value # <<>> THEN value ELSE <<>>

\* data_manager.py:157-163
Row(dh, keys, t) ==
    [kind |-> "data", t |-> t,
     fields |-> [i \in 1..Len(keys) |-> Field(get_latest_value(dh, keys[i]))]]

\* data_manager.py:134-135, 166-167: writerow and flush
WriteRow(fs, f, row) == [fs EXCEPT ![f].rows = Append(@, row)]

\* a close that leaves the file open
CloseFileNot(fs, f) == fs

\* data_manager.py:148: self.csv_file.close(); also the finalizer of a file
\* object that is no longer referenced
CloseFile(fs, f) == IF f = 0 THEN fs ELSE [fs EXCEPT ![f].open = FALSE]

\* a test of line 114 that never finds a session
AlreadyActiveNever(a) == FALSE

\* data_manager.py:114: if self.logging_active
AlreadyActive(a) == a

RECURSIVE CountData(_)
CountData(rows) ==
    IF rows = <<>> THEN 0
    ELSE (IF Head(rows).kind = "data" THEN 1 ELSE 0) + CountData(Tail(rows))

RECURSIVE DataRowsUpTo(_, _)
DataRowsUpTo(fs, n) ==
    IF n = 0 THEN 0 ELSE CountData(fs[n].rows) + DataRowsUpTo(fs, n - 1)

\* The number of data rows written so far
RowsWritten == DataRowsUpTo(files, Len(files))

RECURSIVE SumLen(_, _)
SumLen(f, S) ==
    IF S = {} THEN 0
    ELSE LET k == CHOOSE x \in S : TRUE IN Len(f[k]) + SumLen(f, S \ {k})

\* The number of points the store has received
Received == SumLen(appended, DOMAIN appended)

Work == Len(files) + RowsWritten + Received

\* data_manager.py:18-34, main.py:37-38
LogInit ==
    /\ LogIdle
    /\ data_history = [k \in KnownKeys |-> <<>>] /\ appended = [k \in KnownKeys |-> <<>>]
    /\ max_points = MaxCap /\ start_time = 0 /\ now = 0
    /\ ConnIdle /\ data_callbacks = <<1>> /\ HubIdle /\ RaceIdle /\ CodecIdle

LogFrame ==
    UNCHANGED <<connVars, now, thrVars, storeVars, hubVars, raceVars, codecVars, disk>>

\* data_manager.py:104-139
G_StartLogging ==
    /\ \E signals \in SessionLists :
         IF AlreadyActive(logging_active)
         THEN /\ lret' = "F"
              /\ UNCHANGED <<logging_active, logging_start_time, logging_vars,
                             csv_file, csv_writer, files>>
         ELSE \* 117-127: no file name chosen, or open() raises
              \/ /\ lret' = "F"
                 /\ UNCHANGED <<logging_active, logging_start_time, logging_vars,
                                csv_file, csv_writer, files>>
              \* 124-139: the file is opened and the header written and flushed
              \/ /\ Work < MaxWork
                 /\ LET f  == Len(files) + 1
                        fs == Append(CloseFile(files, csv_file),
                                     [rows |-> <<>>, open |-> TRUE])
                    IN /\ csv_file' = f /\ csv_writer' = f
                       /\ logging_vars' = signals
                       /\ \/ /\ files' = WriteRow(fs, f, Header(signals))
                             /\ logging_start_time' = now
                             /\ logging_active' = TRUE
                             /\ lret' = "T"
                          \* 134-135: writerow or flush raises, with the header
                          \* in the file or not
                          \/ /\ files' \in {fs, WriteRow(fs, f, Header(signals))}
                             /\ UNCHANGED <<logging_start_time, logging_active>>
                             /\ lret' = "raise"
    /\ LogFrame

\* data_manager.py:141-150
G_StopLogging ==
    /\ IF ~logging_active
       THEN /\ lret' = "ret"
            /\ UNCHANGED <<logging_active, logging_start_time, logging_vars,
                           csv_file, csv_writer, files>>
       ELSE /\ logging_active' = FALSE
            /\ files' = CloseFile(files, csv_file)
            /\ \/ csv_file' = 0 /\ csv_writer' = 0 /\ lret' = "ret"
               \* 148: close() raises; the file object is closed all the same
               \/ csv_file # 0 /\ UNCHANGED <<csv_file, csv_writer>> /\ lret' = "raise"
            /\ UNCHANGED <<logging_start_time, logging_vars>>
    /\ LogFrame

\* data_manager.py:152-167, called by main.py:199
G_LogDataPoint ==
    /\ IF ~logging_active \/ csv_writer = 0
       THEN lret' = "ret" /\ UNCHANGED <<files, data_history>>
       ELSE LET row == Row(data_history, logging_vars, now - logging_start_time) IN
              /\ Work < MaxWork
              /\ data_history' = AfterLookups(data_history, logging_vars)
              /\ \/ files' = WriteRow(files, csv_writer, row) /\ lret' = "ret"
                 \* 166-167: writerow or flush raises, with the row in the
                 \* file or not; nothing catches it in log_data_point or _update
                 \/ /\ files' \in {files, WriteRow(files, csv_writer, row)}
                    /\ lret' = "raise"
    /\ UNCHANGED <<logging_active, logging_start_time, logging_vars, csv_file, csv_writer>>
    /\ UNCHANGED <<connVars, now, thrVars, max_points, start_time, appended, hubVars,
                   raceVars, codecVars, disk>>

\* main.py:184-194: a signal event arrives and is appended to the store
G_Receive ==
    /\ \E k \in StoreKeys, v \in LogValues :
         /\ Work < MaxWork
         /\ data_history' = add_data_point(data_history, k, v, now)
         /\ NoteAppend(k, v, now)
    /\ UNCHANGED <<connVars, now, thrVars, max_points, start_time, hubVars, raceVars,
                   codecVars, logVars>>

LogNext ==
    \/ G_StartLogging \/ G_StopLogging \/ G_LogDataPoint
    \/ G_Receive
    \/ Tick

SpecLog == LogInit /\ [][LogNext]_vars

\* C16: start_logging called while a session is Active returns failure and
\* changes nothing: the open file, its writer, the session's key list and
\* start time are unchanged and no second header is written.
C16_StartWhileActiveIsNoOp ==
    [][(G_StartLogging /\ logging_active)
          => /\ lret' = "F"
             /\ UNCHANGED <<logging_active, logging_start_time, logging_vars,
                            csv_file, csv_writer, files>>]_vars

\* start_logging has returned failure with a session Active
C16_Witness ==
    /\ lret = "F" /\ logging_active
    /\ files[csv_file].open /\ Len(files[csv_file].rows) = 1

\* C17: stop_logging called while Inactive raises nothing and leaves every
\* logger field and the store unchanged; stop_logging while Active moves to
\* Inactive and closes the file.
C17_StopLogging ==
    [][/\ (G_StopLogging /\ ~logging_active)
             => /\ lret' = "ret"
                /\ UNCHANGED <<logging_active, logging_start_time, logging_vars,
                               csv_file, csv_writer, files, storeVars>>
       /\ (G_StopLogging /\ logging_active)
             => /\ ~logging_active'
                /\ ~files'[csv_file].open]_vars

\* A session that has written a row was stopped: its file is closed
C17_Witness ==
    /\ lret = "ret" /\ ~logging_active /\ csv_file = 0
    /\ files # <<>> /\ ~files[1].open /\ Len(files[1].rows) = 2

\* C18: in every logging session the file receives the header row
\* ["t", key1, ..., keyN] exactly once, and it is the first row written,
\* before any data row of that session.
C18_HeaderOnceAndFirst ==
    \A f \in 1..Len(files) :
       LET rows == files[f].rows IN
         /\ \A i \in 1..Len(rows) : (rows[i].kind = "header") <=> (i = 1)
         /\ (logging_active /\ f = csv_file)
               => /\ rows # <<>>
                  /\ rows[1] = [kind |-> "header", t |-> 0, fields |-> logging_vars]

\* A session of two keys has written its header and a data row
C18_Witness ==
    /\ logging_active /\ Len(logging_vars) = 2
    /\ Len(files[csv_file].rows) = 2

\* The fields a row is to hold: the latest value of each session key, or
\* the empty field for a key whose series is empty or unknown
ExpectedFields ==
    [i \in 1..Len(logging_vars) |->
        LET k == logging_vars[i] IN
          IF k \in DOMAIN data_history /\ Len(data_history[k]) > 0
          THEN <<data_history[k][Len(data_history[k])][1]>>
          ELSE <<>>]

\* C19: each log_data_point call while Active (whose write does not fail)
\* writes exactly one row of 1 + N fields: the elapsed time since session
\* start, then in header column order the store's latest value of each
\* session key, or an empty field (never 0) for a key whose series is empty
\* or unknown; while Inactive it writes nothing.
C19_OneRowPerTick ==
    [][G_LogDataPoint
          => /\ (logging_active /\ lret' = "ret")
                  => files' = [files EXCEPT ![csv_file].rows =
                                  Append(@, [kind |-> "data",
                                             t |-> now - logging_start_time,
                                             fields |-> ExpectedFields])]
             /\ ~logging_active => files' = files]_vars

\* A row written one time unit after the session start holds the value 0 of
\* one key and the empty field of the other
C19_Witness ==
    /\ logging_active /\ Len(logging_vars) = 2
    /\ Len(files[csv_file].rows) = 2
    /\ files[csv_file].rows[2].t = 1
    /\ \E i, j \in 1..2 : /\ files[csv_file].rows[2].fields[i] = <<0>>
                          /\ files[csv_file].rows[2].fields[j] = <<>>

\* C20: when a row write or flush fails during an Active session, the
\* session is ended: the logger becomes Inactive with the file released.
C20_WriteFailureEndsSession ==
    [][(G_LogDataPoint /\ lret' = "raise")
          => /\ ~logging_active'
             /\ csv_file' = 0 /\ csv_writer' = 0
             /\ ~files'[csv_file].open]_vars

\* C21: when start_logging cannot open the file or cannot write the header,
\* it returns failure to the caller and the logger remains Inactive with no
\* file retained.
C21_FailedStartReturnsFailure ==
    [][(G_StartLogging /\ ~logging_active /\ lret' # "T")
          => /\ lret' = "F"
             /\ ~logging_active'
             /\ csv_file' = 0 /\ csv_writer' = 0]_vars

\* C22: start_logging, log_data_point and stop_logging, whether they
\* succeed or fail, leave the store's series, start_time and max_points
\* unchanged.
C22_LoggerLeavesStore ==
    [][(G_StartLogging \/ G_StopLogging \/ G_LogDataPoint)
          => UNCHANGED <<data_history, start_time, max_points>>]_vars

\* A row was written for a key the store does not know, and the store still
\* does not know it
C22_Witness ==
    /\ logging_active /\ lret = "ret"
    /\ Len(files[csv_file].rows) = 2
    /\ \E i \in 1..Len(logging_vars) : logging_vars[i] \notin DOMAIN data_history

(***************************************************************************)
(* SpecLoad: DataManager.load_log_file (data_manager.py:169-208) on a CSV  *)
(* file of any origin.  A file is the sequence of the rows csv.reader      *)
(* yields, a row the sequence of its cells, a cell a text; a blank line is *)
(* the row without cells.  The file is written row by row by its author;   *)
(* the control context receives points, loads the file and clears the      *)
(* store.                                                                  *)
(***************************************************************************)
\* the size of a file: its cells after the header, a blank row counted as
\* one; and the points received before a load
MaxLoadSize == 4
MaxPrior == 1

\* The cell "t" that heads the time column
TCell == <<"t">>

\* The first rows a file may have: a blank line, and headers of 1 and 2 keys
Headers == {<<>>, <<TCell, <<"a">>>>, <<TCell, <<"a">>, <<"x">>>>}

\* The time cells and the field cells of the data rows: empty, not a
\* number, and numbers
TimeCells == {<<>>, <<"a">>, <<"1">>}
FieldCells == {<<>>, <<"a">>, <<"1", ".", "5">>}

DataRows ==
    {<<>>}
      \cup {<<t>> : t \in TimeCells}
      \cup {<<t, c>> : t \in TimeCells, c \in FieldCells}
      \cup {<<t, c, d>> : t \in TimeCells, c \in FieldCells, d \in FieldCells}

\* float(text): <<h>> for the number of h hundredths, <<>> for ValueError.
\* The texts of the model hold digits, '-', '.' and letters, and at most
\* two fractional digits
PyFloat(c) ==
    LET u    == Unsigned(c)
        dots == {i \in 1..Len(u) : u[i] = "."}
        p    == IF dots = {} THEN Len(u) + 1 ELSE CHOOSE i \in dots : TRUE
        int  == SubSeq(u, 1, p - 1)
        frac == SubSeq(u, p + 1, Len(u))
        ok   == /\ Cardinality(dots) <= 1
                /\ \A i \in 1..Len(u) : i # p => IsDigit(u[i])
                /\ Len(int) + Len(frac) >= 1
                /\ Len(frac) <= 2
        a    == 100 * DigitsVal(int)
                  + (IF Len(frac) >= 1 THEN 10 * DigitVal(frac[1]) ELSE 0)
                  + (IF Len(frac) = 2 THEN DigitVal(frac[2]) ELSE 0)
    IN IF ok THEN <<IF Head(c) = "-" THEN -a ELSE a>> ELSE <<>>

\* a clear that leaves the series as they are
ClearNothing(dh) == dh

\* data_manager.py:90-93
clear_data(dh) == [k \in DOMAIN dh |-> <<>>]

\* lst[1:] of Python
PyTail(lst) == IF lst = <<>> THEN <<>> ELSE Tail(lst)

\* data_manager.py:188: next(reader, None); <<>> is None and is []
HeaderOf(rows) == IF rows = <<>> THEN <<>> ELSE Head(rows)

\* a test that finds a header in every file
HeaderMissingNever(header) == FALSE

\* data_manager.py:189: if not header
HeaderMissing(header) == header = <<>>

\* data_manager.py:193-194
RECURSIVE ResetKeys(_, _)
ResetKeys(dh, signals) ==
    IF signals = <<>> THEN dh
    ELSE ResetKeys(SetKey(dh, Head(signals), <<>>), Tail(signals))

\* data_manager.py:197: float(row[0]) if row[0] else 0; <<>> when row[0]
\* raises IndexError or float raises ValueError
RowTime(row) ==
    IF row = <<>> THEN <<>>
    ELSE IF row[1] = <<>> THEN <<0>>
    ELSE PyFloat(row[1])

\* data_manager.py:199: if i < len(row) and row[i], for the i-th signal
FieldPresent(row, i) == i + 1 <= Len(row) /\ row[i + 1] # <<>>

\* data_manager.py:198-204: the fields of one row, from the i-th signal on
RECURSIVE LoadFields(_, _, _, _, _)
LoadFields(dh, signals, row, t, i) ==
    IF i > Len(signals) THEN dh
    ELSE LET val == IF FieldPresent(row, i) THEN PyFloat(row[i + 1]) ELSE <<>>
             d   == IF val # <<>>
                    THEN SetKey(dh, signals[i], Append(dh[signals[i]], <<val[1], t>>))
                    ELSE dh
         IN LoadFields(d, signals, row, t, i + 1)

\* data_manager.py:196-208: the rows after the header; an exception of
\* line 197 ends the load at line 206-208
RECURSIVE LoadRows(_, _, _)
LoadRows(dh, signals, rows) ==
    IF rows = <<>> THEN [ret |-> TRUE, dh |-> dh]
    ELSE LET t == RowTime(Head(rows)) IN
           IF t = <<>> THEN [ret |-> FALSE, dh |-> dh]
           ELSE LoadRows(LoadFields(dh, signals, Head(rows), t[1], 1),
                         signals, Tail(rows))

\* data_manager.py:182-208, once a file name is chosen and the file opens
load_log_file(dh, rows) ==
    LET cleared == clear_data(dh)
        header  == HeaderOf(rows)
        signals == PyTail(header)
    IN IF HeaderMissing(header) THEN [ret |-> FALSE, dh |-> cleared]
       ELSE LoadRows(ResetKeys(cleared, signals), signals, PyTail(rows))

\* data_manager.py:169-208 with the file of the given rows.  appended
\* holds the points a series has received since it was last emptied
LoadFile(rows) ==
    LET r == load_log_file(data_history, rows) IN
      /\ data_history' = r.dh
      /\ appended' = r.dh
      /\ lret' = IF r.ret THEN "loaded" ELSE "load_failed"

\* data_manager.py:176-180: no file name chosen; 186, 206-208: open raises
\* after the store was cleared
LoadNoFile ==
    /\ lret' = "load_failed"
    /\ \/ UNCHANGED <<data_history, appended>>
       \/ /\ data_history' = clear_data(data_history)
          /\ appended' = clear_data(data_history)

LoadFrame ==
    UNCHANGED <<connVars, now, thrVars, max_points, start_time, hubVars,
                raceVars, codecVars, logging_active, logging_start_time,
                logging_vars, csv_file, csv_writer, files>>

LoadInit ==
    /\ LogIdle
    /\ data_history = [k \in KnownKeys |-> <<>>] /\ appended = [k \in KnownKeys |-> <<>>]
    /\ max_points = MaxCap /\ start_time = 0 /\ now = 0
    /\ ConnIdle /\ data_callbacks = <<1>> /\ HubIdle /\ RaceIdle /\ CodecIdle

RowSize(row) == IF row = <<>> THEN 1 ELSE Len(row)

RECURSIVE SumSizes(_)
SumSizes(rows) == IF rows = <<>> THEN 0 ELSE RowSize(Head(rows)) + SumSizes(Tail(rows))

FileSize(rows) == SumSizes(PyTail(rows))

\* The author of the file writes its next row, of no more cells than the
\* first row has; the file is complete when the application first loads it
E_WriteRow ==
    /\ lret = "none"
    /\ \E row \in (IF disk = <<>> THEN Headers
                   ELSE {r \in DataRows : /\ Len(r) <= Len(disk[1])
                                          /\ FileSize(disk) + RowSize(r) <= MaxLoadSize}) :
          disk' = Append(disk, row)
    /\ UNCHANGED <<data_history, appended, lret>>
    /\ LoadFrame

\* logger_widget.py:136-138: load_log_file with the file on disk
D_Load ==
    /\ LoadFile(disk) \/ LoadNoFile
    /\ UNCHANGED disk
    /\ LoadFrame

\* main.py:184-194: a signal event arrives and is appended to the store
D_Receive ==
    /\ Received < MaxPrior
    /\ \E k \in StoreKeys :
         /\ data_history' = add_data_point(data_history, k, 100, now)
         /\ NoteAppend(k, 100, now)
    /\ UNCHANGED <<connVars, now, thrVars, max_points, start_time, hubVars, raceVars,
                   codecVars, logVars>>

\* main.py:287: clear_data
D_Clear ==
    /\ data_history' = clear_data(data_history)
    /\ appended' = clear_data(data_history)
    /\ lret' = "cleared"
    /\ UNCHANGED disk
    /\ LoadFrame

LoadNext == E_WriteRow \/ D_Load \/ D_Receive \/ D_Clear

SpecLoad == LoadInit /\ [][LoadNext]_vars

\* The number a cell of the model's files stands for, in hundredths
CellNumbers == (<<"1">> :> 100) @@ (<<"1", ".", "5">> :> 150)

\* The time of a data row that has one: 0 for the empty time cell
TimeOfRow(row) == IF row[1] = <<>> THEN 0 ELSE CellNumbers[row[1]]

HasTime(row) == row # <<>> /\ (row[1] = <<>> \/ row[1] \in DOMAIN CellNumbers)

\* The points the j-th signal column of the data rows holds: one for each
\* row, in row order, whose cell of that column is a number
RECURSIVE ColumnPoints(_, _)
ColumnPoints(rows, j) ==
    IF rows = <<>> THEN <<>>
    ELSE LET r == Head(rows) IN
           (IF Len(r) >= j + 1 /\ r[j + 1] \in DOMAIN CellNumbers
            THEN <<<<CellNumbers[r[j + 1]], TimeOfRow(r)>>>>
            ELSE <<>>) \o ColumnPoints(Tail(rows), j)

\* C23: after a successful load_log_file the store holds only the file's
\* contents: every series whose key is not a header column is empty, and
\* the series of each header column is exactly the points read from the
\* file; no point from before the load remains.
C23_LoadReplacesStore ==
    [][(D_Load /\ lret' = "loaded")
          => LET keys == Tail(disk[1]) IN
               /\ DOMAIN data_history' = DOMAIN data_history \cup Range(keys)
               /\ \A k \in DOMAIN data_history' :
                     k \notin Range(keys) => data_history'[k] = <<>>
               /\ \A j \in 1..Len(keys) :
                     data_history'[keys[j]] = ColumnPoints(Tail(disk), j)]_vars

\* A file of one signal column and two data rows was loaded into a store
\* that held a series of another key: that series is empty now
C23_Witness ==
    /\ lret = "loaded"
    /\ Len(disk) = 3 /\ disk[1] = <<TCell, <<"a">>>>
    /\ data_history[<<"a">>] = <<<<150, 0>>, <<150, 100>>>>
    /\ <<"x">> \in DOMAIN data_history /\ data_history[<<"x">>] = <<>>

\* C24: during load_log_file, for every data row and every header column,
\* a numeric field appends one point (field value, row time) to the
\* column's series, and an empty, missing or non-numeric field appends
\* nothing and does not stop the other fields of the row or the later
\* rows.  The rows meant are the blank ones (every field missing) and the
\* ones whose time cell is empty or a number.
C24_FieldsSkippedOneByOne ==
    [][(D_Load /\ LoadFile(disk) /\ disk # <<>> /\ disk[1] # <<>>
          /\ \A i \in 2..Len(disk) : disk[i] = <<>> \/ HasTime(disk[i]))
          => LET keys == Tail(disk[1])
                 rows == SelectSeq(Tail(disk), LAMBDA r : r # <<>>)
             IN \A j \in 1..Len(keys) : data_history'[keys[j]] = ColumnPoints(rows, j)]_vars

\* C25: load_log_file of a file with no header row (an empty file, or a
\* file whose first line is blank) returns failure and adds no point to the
\* store.
C25_NoHeaderAborts ==
    [][(D_Load /\ LoadFile(disk) /\ (disk = <<>> \/ disk[1] = <<>>))
          => /\ lret' = "load_failed"
             /\ \A k \in DOMAIN data_history' : data_history'[k] = <<>>]_vars

\* The load of a file whose first line is blank has failed, in a store
\* that had received points of two keys
C25_Witness ==
    /\ lret = "load_failed"
    /\ Len(disk) >= 2 /\ disk[1] = <<>>
    /\ DOMAIN data_history = StoreKeys
    /\ \A k \in StoreKeys : data_history[k] = <<>>

Chronological(s) == \A i \in 1..(Len(s) - 1) : s[i][2] <= s[i + 1][2]

\* C27: in every store state reached by add_data_point, clear_data and
\* load_log_file, each series is in chronological order: the elapsed
\* seconds of consecutive points never decrease.
C27_SeriesChronological ==
    \A k \in DOMAIN data_history : Chronological(data_history[k])

(***************************************************************************)
(* SpecReplay: one logging session as in SpecLog, and load_log_file        *)
(* applied to the file it wrote once it is stopped.  csv.writer writes a   *)
(* number with repr, load_log_file reads it back with float.               *)
(***************************************************************************)
\* a number text cut after its first fractional digit
ReprOneDigit(h) == Format1f(h)

\* repr of the float of h hundredths: "0.0", "0.5", "0.05", "-1.25"
ReprFloat(h) ==
    LET a == IF h < 0 THEN -h ELSE h
        f == a % 100
    IN (IF h < 0 THEN <<"-">> ELSE <<>>) \o NatText(a \div 100) \o <<".">>
         \o (IF f % 10 = 0 THEN <<DigitChars[(f \div 10) + 1]>>
             ELSE <<DigitChars[(f \div 10) + 1], DigitChars[(f % 10) + 1]>>)

\* data_manager.py:133-134, 158-166: the cells csv.writer writes for a row
CsvCells(row) ==
    IF row.kind = "header" THEN <<TCell>> \o row.fields
    ELSE <<ReprFloat(row.t)>>
           \o [i \in 1..Len(row.fields) |->
                  IF row.fields[i] = <<>> THEN <<>> ELSE ReprFloat(row.fields[i][1])]

\* The rows csv.reader yields for a file the logger wrote
CsvRows(rows) == [i \in 1..Len(rows) |-> CsvCells(rows[i])]

\* logger_widget.py:136-138: load_log_file, between two sessions, with a
\* file a session wrote
G_Replay ==
    /\ ~logging_active
    /\ \/ \E f \in 1..Len(files) : ~files[f].open /\ LoadFile(CsvRows(files[f].rows))
       \/ LoadNoFile
    /\ UNCHANGED disk
    /\ LoadFrame

\* load_log_file has been called
Replayed == lret \in {"loaded", "load_failed"}

\* One session, and then loads
ReplayNext ==
    \/ /\ ~Replayed
       /\ \/ files = <<>> /\ G_StartLogging
          \/ G_StopLogging \/ G_LogDataPoint \/ G_Receive \/ Tick
    \/ G_Replay

SpecReplay == LogInit /\ [][ReplayNext]_vars

\* The points a file written by the logger holds for its i-th key: one for
\* each data row, in row order, whose field of that key is not empty
RECURSIVE RowPoints(_, _)
RowPoints(rows, i) ==
    IF rows = <<>> THEN <<>>
    ELSE (IF Head(rows).fields[i] # <<>>
          THEN <<<<Head(rows).fields[i][1], Head(rows).t>>>>
          ELSE <<>>) \o RowPoints(Tail(rows), i)

ClearNext == G_StartLogging \/ G_StopLogging \/ G_Receive \/ D_Clear \/ Tick

SpecClear == LogInit /\ [][ClearNext]_vars

\* C29: clear_data makes every series empty and leaves start_time,
\* max_points, the set of known keys and the logging session unchanged.
C29_ClearFrame ==
    [][D_Clear
          => /\ DOMAIN data_history' = DOMAIN data_history
             /\ \A k \in DOMAIN data_history' : data_history'[k] = <<>>
             /\ UNCHANGED <<start_time, max_points, logging_active, logging_start_time,
                            logging_vars, csv_file, csv_writer, files>>]_vars

\* The store was cleared during an Active session after it had received a
\* point of a key that was not known at the start
C29_Witness ==
    /\ lret = "cleared" /\ logging_active /\ files[csv_file].open
    /\ DOMAIN data_history = StoreKeys
    /\ \A k \in StoreKeys : data_history[k] = <<>>

\* C28: after N >= 1 add_data_point calls for a key, with no clear or load
\* in between, get_latest_value(key) returns the value of the N-th call,
\* however many points were evicted; for a key whose series is empty or
\* unknown it returns None and does not create the key.
C28_LatestIsLastAppended ==
    \A k \in StoreKeys :
       LET calls == SeriesOf(appended, k) IN
         /\ calls # <<>> => get_latest_value(data_history, k) = <<calls[Len(calls)][1]>>
         /\ (k \notin DOMAIN data_history \/ data_history[k] = <<>>)
               => /\ get_latest_value(data_history, k) = <<>>
                  /\ DictGet(data_history, k) = data_history

\* Points of one key were evicted, the latest value differs from the first
\* one appended, and another key is unknown
C28_Witness ==
    /\ max_points >= 1
    /\ \E k \in DOMAIN data_history :
          /\ Len(appended[k]) > max_points
          /\ appended[k][1][1] # appended[k][Len(appended[k])][1]
          /\ get_latest_value(data_history, k) = <<appended[k][Len(appended[k])][1]>>
    /\ \E k \in StoreKeys : k \notin DOMAIN data_history

NoDuplicates(lst) == \A i, j \in 1..Len(lst) : lst[i] = lst[j] => i = j

\* C30: the subscriber list behaves as a set: register_data_callback of a
\* registered callback leaves the list unchanged, so that each callback
\* appears at most once and a dispatch that went through the list as it is
\* invoked it once; unregister_data_callback of a callback that is not
\* registered leaves the list unchanged (no step of it raises).
C30_SubscriberSet ==
    /\ [](NoDuplicates(data_callbacks))
    /\ [][/\ \A c \in Range(data_callbacks) :
                (H_Register /\ data_callbacks' = Register(data_callbacks, c))
                   => data_callbacks' = data_callbacks
          /\ \A c \in Callbacks \ Range(data_callbacks) :
                (H_Unregister /\ data_callbacks' = Unregister(data_callbacks, c))
                   => data_callbacks' = data_callbacks
          /\ (DispatchEnds /\ dgot = data_callbacks)
                => \A c \in Range(data_callbacks) : Count(dgot, c) = 1]_vars

\* Two callbacks are registered, and an event was dispatched to each of
\* them once
C30_Witness ==
    /\ data_callbacks = <<2, 1>> /\ dsnap = <<2, 1>>
    /\ events = 2 /\ dpc = "idle" /\ dgot = <<2, 1>>

\* toggle_connection returns to its caller
ToggleReturns == mop = "toggle" /\ mpc # "idle" /\ mpc' = "idle"

\* C31: toggle_connection returns the new connection state: True exactly
\* when is_connected() is True after the call, False exactly when the
\* connection is Idle after the call.
C31_ToggleReturnsState ==
    [][ToggleReturns
          => /\ mret' \in {"T", "F"}
             /\ (mret' = "T") <=> is_open'
             /\ (mret' = "F") <=> (~is_open' /\ ser' = 0)]_vars

(***************************************************************************)
(* SpecWire: one line of the device on its way through the reads of the    *)
(* reader loop (comm_manager.py:235-264).  The device writes the line of   *)
(* a key and a value, with or without a byte of line noise in it; the      *)
(* reader takes the bytes in one read or in several, each read being       *)
(* decoded and split into lines by itself.                                 *)
(***************************************************************************)
\* A byte that is valid in no UTF-8 sequence (0xFF)
BadByte == "FF"

WireKeyChars == {"a", "b"}
WireKeys == UNION {[1..n -> WireKeyChars] : n \in 1..MaxKey}
WireValues == {-MaxValue, 5, MaxValue}

\* comm_manager.py:237: raw_bytes.decode('utf-8', errors='ignore'): the
\* invalid bytes are left out
BytesDecode(bytes) == SelectSeq(bytes, LAMBDA b : b # BadByte)

\* The line with the invalid byte after its p-th byte, unchanged when p = 0
WithBadByte(line, p) ==
    IF p = 0 THEN line
    ELSE SubSeq(line, 1, p) \o <<BadByte>> \o SubSeq(line, p + 1, Len(line))

WireInit ==
    /\ tx_key \in WireKeys /\ tx_value \in WireValues
    /\ wire = <<>> /\ rx_events = <<>> /\ cpc = "send"
    /\ ConnOpen /\ now = 0
    /\ data_history = [k \in KnownKeys |-> <<>>] /\ appended = [k \in KnownKeys |-> <<>>]
    /\ max_points = MaxCap /\ start_time = 0
    /\ data_callbacks = <<1>> /\ HubIdle /\ RaceIdle /\ LogIdle

\* The device writes the line "key:value\r\n"
W_Send ==
    /\ cpc = "send"
    /\ \E p \in 0..(Len(Encode(tx_key, tx_value)) - 2) :
          wire' = WithBadByte(Encode(tx_key, tx_value), p)
    /\ cpc' = "read"
    /\ UNCHANGED <<tx_key, tx_value, rx_events>>
    /\ CodecFrame

\* comm_manager.py:235-264: one iteration of the reader loop that finds n
\* bytes waiting: read, decode, splitlines, and the for loop over the lines
ReadBytes(n) ==
    /\ rx_events' = rx_events
                      \o SignalEvents(SplitLines(BytesDecode(SubSeq(wire, 1, n))))
    /\ wire' = SubSeq(wire, n + 1, Len(wire))

W_Read ==
    /\ cpc = "read"
    /\ \E n \in 1..Len(wire) : ReadBytes(n)
    /\ cpc' = IF wire' = <<>> THEN "done" ELSE "read"
    /\ UNCHANGED <<tx_key, tx_value>>
    /\ CodecFrame

WireNext == W_Send \/ W_Read

SpecWire == WireInit /\ [][WireNext]_vars

\* C32: every dispatched signal event corresponds to one complete line sent
\* by the device: when the bytes of a line arrive split across reads (at
\* any byte position, including inside the key), no event is dispatched
\* whose key or value differs from those of the full line.
C32_EventsOfFullLines ==
    \A i \in 1..Len(rx_events) :
       rx_events[i] = [key |-> tx_key, val |-> tx_value]

\* The list s is the list l without some of its items
Without(s, l) == s # l /\ s = SelectSeq(l, LAMBDA x : x \in Range(s))

\* C33: when a callback unregistered itself during a dispatch, and nothing
\* was registered meanwhile, every other callback that was registered when
\* the dispatch began and is still registered has received the event
\* exactly once: none is skipped.
C33_UnregisterSkipsNone ==
    [][(/\ DispatchEnds
        /\ Without(data_callbacks', dsnap)
        /\ selfUnsub \cap Range(dsnap) # {})
          => \A c \in Range(data_callbacks') : Count(dgot, c) = 1]_vars

\* The bytes waiting are one whole line whose value field holds the invalid
\* byte between two of its characters
BadByteInValue(bytes) ==
    \E p \in (Len(tx_key) + 2)..(Len(Encode(tx_key, tx_value)) - 3) :
       bytes = WithBadByte(Encode(tx_key, tx_value), p)

\* C34: an invalid byte is replaced by a replacement character, not
\* removed: a line whose value field holds an invalid byte between
\* otherwise valid characters is discarded and produces no signal event.
C34_InvalidByteDiscardsLine ==
    [][(W_Read /\ BadByteInValue(wire) /\ wire' = <<>>)
          => rx_events' = <<>>]_vars

\* stop() returns: at line 225 when there is no live reader thread, or
\* from the join of line 226
StopReturns == mpc \in {"stop", "join"} /\ mpc' = "d_check"

\* C35: stop() returns only once the reader thread is no longer alive (the
\* reader having ended after at most its iteration in flight).
C35_StopWaitsForReader ==
    [][StopReturns => (reader_thread # 0 => ~Alive(reader_thread)')]_vars

\* The threads that are running _read_serial
Readers == {t \in Tids : Alive(t)}

\* C36: at most one reader thread is running _read_serial at any time,
\* across every sequence of toggle_connection, connect, disconnect,
\* send_message failures and read failures.
C36_AtMostOneReader == Cardinality(Readers) <= 1

\* C37: with max_points = 0 the bound still holds: after add_data_point
\* every series has length 0.
C37_ZeroCapacityKeepsNothing ==
    max_points = 0 => \A k \in DOMAIN data_history : Len(data_history[k]) = 0

\* C38: load_log_file is all-or-nothing: whenever it returns False (dialog
\* cancelled, missing header, unreadable file, or a row that makes parsing
\* raise), the series of the store are the same as before the call.
C38_FailedLoadLeavesStore ==
    [][(D_Load /\ lret' = "load_failed") => data_history' = data_history]_vars

\* C39: in every state reached after a logger operation returns or raises,
\* the logger is Active if and only if a file and a writer are held:
\* logging_active is True exactly when csv_file and csv_writer are not None.
C39_ActiveIffSinkHeld ==
    logging_active <=> (csv_file # 0 /\ csv_writer # 0)

====
